---- MODULE Spec2Model ----
(***************************************************************************)
(* Model of api/app/services/chat.py: the six chat operations running      *)
(* against one MongoDB collection (chatsCollection) and the AI provider.   *)
(*                                                                         *)
(* The collection is shared with every other request (and every other      *)
(* worker of the service), and MongoDB makes a single find_one, insert_one,*)
(* update_one or delete_one atomic, nothing more.  Each store call is      *)
(* therefore one step; list, create, rename, get and delete issue at most  *)
(* one store call and are one action each, post_message_by_chat_id issues  *)
(* an AI call and two store calls and is a process with a program counter. *)
(***************************************************************************)
EXTENDS Integers, Sequences, FiniteSets, TLC

(* ------------------------------ bounds --------------------------------- *)
\* number of chats create_chat_by_user_id may insert in one behaviour
MaxChats == 2
\* number of post_message_by_chat_id calls started in one behaviour
MaxCalls == 1
\* the same two bounds of the specification of the posts to one chat
PostChats == 1
PostCalls == 2
\* the calls started in the specification of the growth of one chat's messages
GrowCalls == 3
\* number of post_message_by_chat_id calls that can be in flight together
NumProcs == 2

Procs == 1..NumProcs

(* ------------------------ strings and ObjectIds ------------------------ *)
\* length of the hexadecimal form of an ObjectId (12 bytes)
OidHexLen == 24

LowerHex == <<"0","1","2","3","4","5","6","7","8","9","a","b","c","d","e","f">>
UpperHex == <<"0","1","2","3","4","5","6","7","8","9","A","B","C","D","E","F">>

IsHexChar(c) == \E i \in 1..16 : c = LowerHex[i] \/ c = UpperHex[i]

HexVal(c) == CHOOSE v \in 0..15 : c = LowerHex[v + 1] \/ c = UpperHex[v + 1]

\* ObjectId.is_valid(chat_id) for a str: 24 characters, all hexadecimal
IsValid_AnyLength(chat_id) ==
    \A i \in 1..Len(chat_id) : IsHexChar(chat_id[i])

IsValid(chat_id) ==
    /\ Len(chat_id) = OidHexLen
    /\ \A i \in 1..Len(chat_id) : IsHexChar(chat_id[i])

\* ObjectId(chat_id): the 12 bytes the hexadecimal text denotes, as the values
\* of its 24 digits (upper and lower case denote the same value)
ObjectId(chat_id) == [i \in 1..Len(chat_id) |-> HexVal(chat_id[i])]

\* str(ObjectId): the 24 digits in lower case
OidStr(oid) == [i \in 1..Len(oid) |-> LowerHex[oid[i] + 1]]

Zeros(n) == [i \in 1..n |-> "0"]

\* the k-th hexadecimal digit of n from the right, for n below 2^31
HexDigit(n, k) == IF k > 7 THEN 0 ELSE (n \div (16 ^ k)) % 16

\* insert_one numbers the documents FirstOid, FirstOid + 1, ... (0xa, 0xb, ...)
FirstOid == 10

\* the _id insert_one gives the document numbered n
GeneratedId_Fixed(n) == [i \in 1..OidHexLen |-> HexDigit(FirstOid, OidHexLen - i)]

GeneratedId(n) == [i \in 1..OidHexLen |-> HexDigit(n, OidHexLen - i)]

Oids == {GeneratedId(n) : n \in FirstOid..(FirstOid + MaxChats - 1)}

\* chat_id strings a caller may send: the ids of the chats, and malformed
\* ones (too short, not hexadecimal)
ValidChatIds == {OidStr(o) : o \in Oids}
MalformedChatIds == {Zeros(OidHexLen - 1), Zeros(OidHexLen - 1) \o <<"g">>}
ChatIdInputs == ValidChatIds \cup MalformedChatIds

UserIds == {"u1", "u2"}
\* the sentinel name of create_chat_by_user_id
NewChat == "New Chat"
\* the argument left out of a call
Omitted == "<omitted>"
Names == {"n1"}
Prompts == {"p1", "p2"}
\* the (userId, name) pairs create is called with: one leaves the name out
CreateInputs == {<<"u1", Omitted>>, <<"u2", "n1">>}

\* str.strip(): the text without its leading and trailing whitespace
IsSpace(c) == c \in {" ", "\t", "\n"}

RECURSIVE lstrip(_)
lstrip(s) == IF s # <<>> /\ IsSpace(Head(s)) THEN lstrip(Tail(s)) ELSE s

RECURSIVE rstrip(_)
rstrip(s) ==
    IF s # <<>> /\ IsSpace(s[Len(s)]) THEN rstrip(SubSeq(s, 1, Len(s) - 1)) ELSE s

strip(s) == rstrip(lstrip(s))

\* truth value of a str: non-empty
Truthy_Always(s) == TRUE

Truthy(s) == s # <<>>

\* what get_ai_response returns for each prompt, when it returns
Answer ==
    [i \in Prompts |->
        IF i = "p1"
        THEN [explanation |-> "e1", html |-> <<"a">>,      css |-> <<"c">>, js |-> <<>>]
        ELSE [explanation |-> "e2", html |-> <<" ", "b">>, css |-> <<" ">>, js |-> <<"j">>]]

(* ------------------------------ documents ------------------------------ *)
None == [none |-> TRUE]

Has(d, k) == k \in DOMAIN d

Put(d, k, v) == [x \in (DOMAIN d) \cup {k} |-> IF x = k THEN v ELSE d[x]]

EmptyDict == [x \in {} |-> x]

\* MessageType
USER == "user"
AI == "ai"

Message(content, type) == [content |-> content, type |-> type]

Code(html, css, js) == [html |-> html, css |-> css, js |-> js]

\* Chat(userId=user_id, name=name).model_dump()
Chat(userId, name) ==
    [userId |-> userId, name |-> name, messages |-> <<>>,
     code |-> Code(<<>>, <<>>, <<>>)]

\* schemas: the summary of one chat, the summaries of a cursor, the detail
basic_chat(d) == [id |-> OidStr(d["_id"]), userId |-> d["userId"], name |-> d["name"]]

all_chats(resp) == [i \in 1..Len(resp.docs) |-> basic_chat(resp.docs[i])]

detailed_chat(d) == Put(d, "_id", OidStr(d["_id"]))

(* ------------------------------ the store ------------------------------ *)
\* positions of the documents of s whose _id is oid
Matches_All(s, oid) == 1..Len(s)

Matches(s, oid) == {i \in 1..Len(s) : s[i]["_id"] = oid}

FirstMatch(s, oid) == CHOOSE i \in Matches(s, oid) : \A j \in Matches(s, oid) : i <= j

\* chatsCollection.find({"userId": user_id}): a cursor, never None
find_all(s, user_id) ==
    [docs |-> SelectSeq(s, LAMBDA d : TRUE)]

find(s, user_id) ==
    [docs |-> SelectSeq(s, LAMBDA d : Has(d, "userId") /\ d["userId"] = user_id)]

\* chatsCollection.find_one({"_id": oid})
find_one(s, oid) == IF Matches(s, oid) = {} THEN None ELSE s[FirstMatch(s, oid)]

\* chatsCollection.insert_one(doc)
insert_one(s, oid, doc) == Append(s, Put(doc, "_id", oid))

\* one document after the update operators $push and $set
SetKeys(upd) == IF Has(upd, "$set") THEN DOMAIN upd["$set"] ELSE {}

CodeKeys(upd) == {k \in {"html", "css", "js"} : ("code." \o k) \in SetKeys(upd)}

ApplyUpdate(d, upd) ==
    LET pushed == IF Has(upd, "$push")
                  THEN Put(d, "messages",
                           (IF Has(d, "messages") THEN d["messages"] ELSE <<>>)
                              \o upd["$push"]["messages"]["$each"])
                  ELSE d
        named  == IF "name" \in SetKeys(upd)
                  THEN Put(pushed, "name", upd["$set"]["name"])
                  ELSE pushed
        old    == IF Has(named, "code") THEN named["code"] ELSE EmptyDict
        code   == [k \in (DOMAIN old) \cup CodeKeys(upd) |->
                      IF k \in CodeKeys(upd) THEN upd["$set"]["code." \o k] ELSE old[k]]
    IN  IF CodeKeys(upd) = {} THEN named ELSE Put(named, "code", code)

\* chatsCollection.update_one({"_id": oid}, upd, upsert): the collection
\* afterwards and the UpdateResult
update_one_NoUpsert(s, oid, upd, upsert) ==
    IF Matches(s, oid) # {}
    THEN [store |-> [s EXCEPT ![FirstMatch(s, oid)] = ApplyUpdate(@, upd)],
          matched_count |-> 1, upserted |-> FALSE]
    ELSE [store |-> s, matched_count |-> 0, upserted |-> FALSE]

update_one(s, oid, upd, upsert) ==
    IF Matches(s, oid) # {}
    THEN [store |-> [s EXCEPT ![FirstMatch(s, oid)] = ApplyUpdate(@, upd)],
          matched_count |-> 1, upserted |-> FALSE]
    ELSE IF upsert
    THEN [store |-> Append(s, ApplyUpdate([x \in {"_id"} |-> oid], upd)),
          matched_count |-> 0, upserted |-> TRUE]
    ELSE [store |-> s, matched_count |-> 0, upserted |-> FALSE]

RemoveAt(s, i) == SubSeq(s, 1, i - 1) \o SubSeq(s, i + 1, Len(s))

\* chatsCollection.delete_one({"_id": oid})
delete_one(s, oid) ==
    IF Matches(s, oid) # {}
    THEN [store |-> RemoveAt(s, FirstMatch(s, oid)), deleted_count |-> 1]
    ELSE [store |-> s, deleted_count |-> 0]


(* ------------------------------- state --------------------------------- *)
VARIABLES
    store,      \* chatsCollection: the documents, in insertion order
    nextId,     \* the number of the next document insert_one inserts
    started,    \* post_message_by_chat_id calls started so far
    pc,         \* pc[p]: where call p of post_message_by_chat_id stands
    chat_id,    \* chat_id[p], prompt[p]: the arguments of call p
    prompt,
    response,   \* response[p]: what get_ai_response returned
    chat,       \* chat[p]: what find_one returned (line 75)
    result,     \* result[p]: the UpdateResult of update_one (line 102)
    outcome,    \* outcome[p]: how call p ended, and ret[p]: what it returned
    ret,
    trace,      \* trace[p]: AI calls and store calls call p has issued
    last,       \* the last list, create, rename, get or delete call and its end
    hist        \* per chat id: what has happened to the chat so far

vars == <<store, nextId, started, pc, chat_id, prompt, response, chat, result,
          outcome, ret, trace, last, hist>>

locals == <<pc, chat_id, prompt, response, chat, result, outcome, ret, trace>>

\* a field or a value that is not there (Python's None where a str may stand)
NoValue == "<None>"

\* the ways a call ends: a return, or HTTPException 400, HTTPException 404,
\* or the exception get_ai_response raised
OK == "OK"
InvalidArgument == "InvalidArgument"
NotFound == "NotFound"
UpstreamFailure == "UpstreamFailure"

NoResponse == [explanation |-> NoValue, html |-> <<>>, css |-> <<>>, js |-> <<>>]
NoResult == [matched_count |-> 0, upserted |-> FALSE, called |-> FALSE]
NoTrace == [ai |-> 0, store |-> 0]
NoRet == [name |-> NoValue]
NoHist == [created |-> NoValue, autoNamed |-> 0,
           received |-> Code(<<>>, <<>>, <<>>), peak |-> 0]

NoLast == [op |-> "none", arg |-> <<>>, outcome |-> NoValue, body |-> NoValue,
           stored |-> 0, matched |-> 0, existed |-> FALSE]

Init ==
    /\ store = <<>>
    /\ nextId = FirstOid
    /\ started = 0
    /\ pc = [p \in Procs |-> "idle"]
    /\ chat_id = [p \in Procs |-> <<>>]
    /\ prompt = [p \in Procs |-> NoValue]
    /\ response = [p \in Procs |-> NoResponse]
    /\ chat = [p \in Procs |-> None]
    /\ result = [p \in Procs |-> NoResult]
    /\ outcome = [p \in Procs |-> NoValue]
    /\ ret = [p \in Procs |-> NoRet]
    /\ trace = [p \in Procs |-> NoTrace]
    /\ last = NoLast
    /\ hist = EmptyDict

(* ---------------------- list, create, rename, get, delete --------------- *)
\* a call that has ended: its arguments, how it ended and what it returned,
\* the store calls it issued and whether its id matched a record before it
Ended(op, arg, out, body, stored, matched, existed) ==
    [op |-> op, arg |-> arg, outcome |-> out, body |-> body,
     stored |-> stored, matched |-> matched, existed |-> existed]

\* lines 15-18: resp is a cursor and is never None
ListChats(s, user_id) ==
    LET resp == find(s, user_id)
    IN  IF resp = None
        THEN [outcome |-> NotFound, body |-> NoValue, matched |-> 0]
        ELSE [outcome |-> OK, body |-> all_chats(resp), matched |-> Len(resp.docs)]

\* get_chats_by_user_id, lines 13-18
get_chats_by_user_id(user_id) ==
    /\ LET r == ListChats(store, user_id)
       IN  last' = Ended("list", user_id, r.outcome, r.body, 1, r.matched, r.matched > 0)
    /\ UNCHANGED <<store, nextId, started, locals, hist>>

\* create_chat_by_user_id, lines 20-24; given is the name or Omitted
create_chat_by_user_id(user_id, given) ==
    /\ LET name == IF given = Omitted THEN NewChat ELSE given
           doc  == Chat(user_id, name)
           oid  == GeneratedId(nextId)
       IN  /\ store' = insert_one(store, oid, doc)
           /\ last' = Ended("create", [user_id |-> user_id, name |-> given], OK,
                            basic_chat(Put(doc, "_id", oid)), 1, 0, FALSE)
           /\ hist' = Put(hist, oid, [NoHist EXCEPT !.created = name])
    /\ nextId' = nextId + 1
    /\ UNCHANGED <<started, locals>>

\* resp.matched_count == 0 / resp.deleted_count == 0 (lines 34, 52, 108)
NoneMatched_Never(count) == FALSE

NoneMatched(count) == count = 0

\* rename_chat_by_id, lines 26-36
rename_chat_by_id(cid, name) ==
    /\ IF ~IsValid(cid)
       THEN /\ last' = Ended("rename", cid, InvalidArgument, NoValue, 0, 0, FALSE)
            /\ UNCHANGED store
       ELSE LET resp == update_one(store, ObjectId(cid),
                                   [x \in {"$set"} |-> [name |-> name]], FALSE)
                none == NoneMatched(resp.matched_count)
            IN  /\ store' = resp.store
                /\ last' = Ended("rename", cid, IF none THEN NotFound ELSE OK,
                                 IF none THEN NoValue ELSE "Chat renamed successfully.",
                                 1, resp.matched_count,
                                 Matches(store, ObjectId(cid)) # {})
    /\ UNCHANGED <<nextId, started, locals, hist>>

\* get_chat_by_id, lines 38-45
get_chat_by_id(cid) ==
    /\ IF ~IsValid(cid)
       THEN last' = Ended("get", cid, InvalidArgument, NoValue, 0, 0, FALSE)
       ELSE LET resp == find_one(store, ObjectId(cid))
            IN  last' = Ended("get", cid, IF resp = None THEN NotFound ELSE OK,
                              IF resp = None THEN NoValue ELSE detailed_chat(resp),
                              1, Cardinality(Matches(store, ObjectId(cid))),
                              Matches(store, ObjectId(cid)) # {})
    /\ UNCHANGED <<store, nextId, started, locals, hist>>

\* the history of a chat id whose record is deleted: the record's own history
\* ends, the number of messages the id has held stays
Forgotten(h) == [NoHist EXCEPT !.peak = h.peak]

\* delete_chat_by_id, lines 47-54
delete_chat_by_id(cid) ==
    /\ IF ~IsValid(cid)
       THEN /\ last' = Ended("delete", cid, InvalidArgument, NoValue, 0, 0, FALSE)
            /\ UNCHANGED <<store, hist>>
       ELSE LET resp == delete_one(store, ObjectId(cid))
                none == NoneMatched(resp.deleted_count)
            IN  /\ store' = resp.store
                /\ last' = Ended("delete", cid, IF none THEN NotFound ELSE OK,
                                 IF none THEN NoValue ELSE "Chat deleted successfully.",
                                 1, resp.deleted_count,
                                 Matches(store, ObjectId(cid)) # {})
                /\ hist' = IF resp.deleted_count = 0 THEN hist
                           ELSE [hist EXCEPT ![ObjectId(cid)] = Forgotten(@)]
    /\ UNCHANGED <<nextId, started, locals>>

(* ----------------------- post_message_by_chat_id ------------------------ *)
user_message(p) == Message(prompt[p], USER)

\* line 72: the AI message of a call is made of the explanation it received
ai_message_AsUser(p) == Message(response[p].explanation, USER)

ai_message(p) == Message(response[p].explanation, AI)

\* line 73: the Code of a call holds the three values it received, as received
code_Stripped(p) ==
    Code(strip(response[p].html), strip(response[p].css), strip(response[p].js))

code(p) == Code(response[p].html, response[p].css, response[p].js)

\* the two messages of one call, in the order $each lists them (line 81)
NewMessages_Swapped(user, ai) == <<ai, user>>

NewMessages(user, ai) == <<user, ai>>

\* update_data, lines 79-100
update_data(input, user, ai, cd, found) ==
    LET push == [x \in {"messages"} |-> [y \in {"$each"} |-> NewMessages(user, ai)]]
        set0 == EmptyDict
        set1 == IF Truthy(strip(cd.html)) THEN Put(set0, "code.html", cd.html) ELSE set0
        set2 == IF Truthy(strip(cd.css)) THEN Put(set1, "code.css", cd.css) ELSE set1
        set3 == IF Truthy(strip(cd.js)) THEN Put(set2, "code.js", cd.js) ELSE set2
        set4 == IF Has(found, "name") /\ found["name"] = NewChat
                THEN Put(set3, "name", input) ELSE set3
    IN  IF DOMAIN set4 = {}
        THEN [x \in {"$push"} |-> push]
        ELSE [x \in {"$push", "$set"} |-> IF x = "$push" THEN push ELSE set4]

\* lines 67-70: the id check, then the call of get_ai_response
Begin(p, cid, input) ==
    /\ pc[p] = "idle"
    /\ \A q \in Procs : q < p => pc[q] # "idle"
    /\ started' = started + 1
    /\ chat_id' = [chat_id EXCEPT ![p] = cid]
    /\ prompt' = [prompt EXCEPT ![p] = input]
    /\ IF ~IsValid(cid)
       THEN /\ pc' = [pc EXCEPT ![p] = "done"]
            /\ outcome' = [outcome EXCEPT ![p] = InvalidArgument]
            /\ UNCHANGED trace
       ELSE /\ pc' = [pc EXCEPT ![p] = "ai"]
            /\ trace' = [trace EXCEPT ![p].ai = @ + 1]
            /\ UNCHANGED outcome
    /\ UNCHANGED <<store, nextId, response, chat, result, ret, last, hist>>

\* line 70: get_ai_response returns r
AiReturn(p, r) ==
    /\ pc[p] = "ai"
    /\ response' = [response EXCEPT ![p] = r]
    /\ pc' = [pc EXCEPT ![p] = "find"]
    /\ UNCHANGED <<store, nextId, started, chat_id, prompt, chat, result, outcome,
                   ret, trace, last, hist>>

\* line 70: get_ai_response raises; nothing catches it
AiRaise_Retry(p) ==
    /\ pc[p] = "ai"
    /\ trace[p].ai < 2
    /\ trace' = [trace EXCEPT ![p].ai = @ + 1]
    /\ UNCHANGED <<store, nextId, started, pc, chat_id, prompt, response, chat,
                   result, outcome, ret, last, hist>>

AiRaise(p) ==
    /\ pc[p] = "ai"
    /\ pc' = [pc EXCEPT ![p] = "done"]
    /\ outcome' = [outcome EXCEPT ![p] = UpstreamFailure]
    /\ UNCHANGED <<store, nextId, started, chat_id, prompt, response, chat, result,
                   ret, trace, last, hist>>

\* lines 75-77
FindChat(p) ==
    /\ pc[p] = "find"
    /\ LET found == find_one(store, ObjectId(chat_id[p]))
       IN  /\ chat' = [chat EXCEPT ![p] = found]
           /\ IF found = None
              THEN /\ pc' = [pc EXCEPT ![p] = "done"]
                   /\ outcome' = [outcome EXCEPT ![p] = NotFound]
              ELSE /\ pc' = [pc EXCEPT ![p] = "update"]
                   /\ UNCHANGED outcome
    /\ trace' = [trace EXCEPT ![p].store = @ + 1]
    /\ UNCHANGED <<store, nextId, started, chat_id, prompt, response, result, ret,
                   last, hist>>

Max(a, b) == IF a >= b THEN a ELSE b

\* what one applied update adds to the history of chat oid
Recorded(h, before, after, r, upd) ==
    [h EXCEPT
       !.received = [f \in {"html", "css", "js"} |->
                        IF strip(r[f]) # <<>> THEN r[f] ELSE @[f]],
       !.peak = IF after = None THEN @ ELSE Max(@, Len(after["messages"])),
       !.autoNamed = IF /\ "name" \in SetKeys(upd)
                        /\ \/ @ = 0
                           \/ ~Has(before, "name")
                           \/ before["name"] # after["name"]
                     THEN (IF @ < 2 THEN @ + 1 ELSE @) ELSE @]

\* lines 79-115
UpdateChat(p) ==
    /\ pc[p] = "update"
    /\ LET oid == ObjectId(chat_id[p])
           upd == update_data(prompt[p], user_message(p), ai_message(p), code(p), chat[p])
           res == update_one(store, oid, upd, TRUE)
           before == find_one(store, oid)
           after == find_one(res.store, oid)
       IN  /\ store' = res.store
           /\ result' = [result EXCEPT ![p] = [matched_count |-> res.matched_count,
                                               upserted |-> res.upserted,
                                               called |-> TRUE]]
           /\ hist' = [hist EXCEPT ![oid] = Recorded(@, before, after, response[p], upd)]
           /\ IF NoneMatched(res.matched_count)
              THEN /\ outcome' = [outcome EXCEPT ![p] = NotFound]
                   /\ UNCHANGED ret
              ELSE /\ outcome' = [outcome EXCEPT ![p] = OK]
                   /\ ret' = [ret EXCEPT ![p] =
                         [name |-> IF "name" \in SetKeys(upd) THEN upd["$set"]["name"]
                                   ELSE IF Has(chat[p], "name") THEN chat[p]["name"]
                                   ELSE NoValue,
                          message |-> ai_message(p),
                          code |-> code(p)]]
    /\ pc' = [pc EXCEPT ![p] = "done"]
    /\ trace' = [trace EXCEPT ![p].store = @ + 1]
    /\ UNCHANGED <<nextId, started, chat_id, prompt, response, chat, last>>

\* the call is over; p is free for the next request
Return(p) ==
    /\ pc[p] = "done"
    /\ pc' = [pc EXCEPT ![p] = "idle"]
    /\ chat_id' = [chat_id EXCEPT ![p] = <<>>]
    /\ prompt' = [prompt EXCEPT ![p] = NoValue]
    /\ response' = [response EXCEPT ![p] = NoResponse]
    /\ chat' = [chat EXCEPT ![p] = None]
    /\ result' = [result EXCEPT ![p] = NoResult]
    /\ outcome' = [outcome EXCEPT ![p] = NoValue]
    /\ ret' = [ret EXCEPT ![p] = NoRet]
    /\ trace' = [trace EXCEPT ![p] = NoTrace]
    /\ UNCHANGED <<store, nextId, started, last, hist>>

\* the response of the last list, create, rename, get or delete call is out
Respond ==
    /\ last.op # "none"
    /\ last' = NoLast
    /\ UNCHANGED <<store, nextId, started, locals, hist>>

(* ---------------------------- specification ---------------------------- *)
\* A call that has ended is answered before the next step is taken: what is
\* left of a handler after its last store call is local to the request.
Quiet == last.op = "none" /\ \A p \in Procs : pc[p] # "done"

ListStep == Quiet /\ \E u \in UserIds : get_chats_by_user_id(u)
CreateStep ==
    /\ Quiet
    /\ nextId < FirstOid + MaxChats
    /\ \E a \in CreateInputs : create_chat_by_user_id(a[1], a[2])
RenameStep == Quiet /\ \E c \in ChatIdInputs, n \in Names : rename_chat_by_id(c, n)
GetStep == Quiet /\ \E c \in ChatIdInputs : get_chat_by_id(c)
DeleteStep == Quiet /\ \E c \in ChatIdInputs : delete_chat_by_id(c)
BeginStep ==
    /\ Quiet
    /\ started < MaxCalls
    /\ \E p \in Procs, c \in ChatIdInputs : Begin(p, c, "p1")
AiReturnStep == Quiet /\ \E p \in Procs : AiReturn(p, Answer[prompt[p]])
AiRaiseStep == Quiet /\ \E p \in Procs : AiRaise(p)
FindStep == Quiet /\ \E p \in Procs : FindChat(p)
UpdateStep == Quiet /\ \E p \in Procs : UpdateChat(p)
ReturnStep == \E p \in Procs : Return(p)

Next ==
    \/ ListStep
    \/ CreateStep
    \/ RenameStep
    \/ GetStep
    \/ DeleteStep
    \/ Respond
    \/ BeginStep
    \/ AiReturnStep
    \/ AiRaiseStep
    \/ FindStep
    \/ UpdateStep
    \/ ReturnStep

Spec == Init /\ [][Next]_vars

\* The posts to the chats of one user: create, rename, delete and
\* post-message calls with well-formed ids, more calls, fewer chats.
PostCreateStep ==
    /\ Quiet
    /\ nextId < FirstOid + PostChats
    /\ create_chat_by_user_id("u1", Omitted)
PostIds == {OidStr(GeneratedId(n)) : n \in FirstOid..(FirstOid + PostChats - 1)}
PostRenameStep == Quiet /\ \E c \in PostIds, n \in Names : rename_chat_by_id(c, n)
PostDeleteStep == Quiet /\ \E c \in PostIds : delete_chat_by_id(c)
PostBeginStep ==
    /\ Quiet
    /\ started < PostCalls
    /\ \E p \in Procs, c \in PostIds, i \in Prompts : Begin(p, c, i)

NextPosts ==
    \/ PostCreateStep
    \/ PostRenameStep
    \/ PostDeleteStep
    \/ Respond
    \/ PostBeginStep
    \/ AiReturnStep
    \/ AiRaiseStep
    \/ FindStep
    \/ UpdateStep
    \/ ReturnStep

SpecPosts == Init /\ [][NextPosts]_vars

\* The same operations with one more post-message call.
GrowBeginStep ==
    /\ Quiet
    /\ started < GrowCalls
    /\ \E p \in Procs, c \in PostIds, i \in Prompts : Begin(p, c, i)

NextGrow ==
    \/ PostCreateStep
    \/ PostRenameStep
    \/ PostDeleteStep
    \/ Respond
    \/ GrowBeginStep
    \/ AiReturnStep
    \/ AiRaiseStep
    \/ FindStep
    \/ UpdateStep
    \/ ReturnStep

SpecGrow == Init /\ [][NextGrow]_vars


(* ------------------------------- claims -------------------------------- *)
Ids(s) == {s[i]["_id"] : i \in 1..Len(s)}

\* the record of call p's chat id in collection s
Addressed(s, p) == find_one(s, ObjectId(chat_id[p]))

EndedById == last.op \in {"rename", "get", "delete"}

\* C1, as stated: for every well-formed chatId that matches no record, rename,
\* get, delete and post-message all end with NotFound.
C1_AbsentEndsNotFound ==
    /\ EndedById /\ last.arg \in ValidChatIds /\ ~last.existed
          => last.outcome = NotFound
    /\ \A p \in Procs :
          /\ pc[p] = "done"
          /\ chat_id[p] \in ValidChatIds
          /\ ~Has(hist, ObjectId(chat_id[p]))
          => outcome[p] = NotFound

\* C1, amended: for every well-formed chatId that matches no record, rename,
\* get and delete end with NotFound; post-message ends with NotFound when the
\* AI provider returns and with the provider's failure when it raises (the
\* provider is called before the lookup); none of the four reports success,
\* and a post-message reports success only if its update matched a record.
C1_AbsentNeverSucceeds ==
    /\ EndedById /\ last.arg \in ValidChatIds /\ ~last.existed
          => last.outcome = NotFound
    /\ \A p \in Procs :
          pc[p] = "done" /\ chat_id[p] \in ValidChatIds
          => /\ ~Has(hist, ObjectId(chat_id[p]))
                   => outcome[p] = IF response[p] = NoResponse
                                   THEN UpstreamFailure ELSE NotFound
             /\ trace[p].store >= 1 /\ chat[p] = None => outcome[p] = NotFound
             /\ outcome[p] = OK
                   => /\ result[p].matched_count = 1
                      /\ Addressed(store, p) # None

C1_Witness ==
    \E p \in Procs :
        /\ pc[p] = "done"
        /\ chat_id[p] \in ValidChatIds
        /\ trace[p].store = 1
        /\ chat[p] = None
        /\ outcome[p] = NotFound

\* C2: for every malformed chatId, rename, get, delete and post-message end
\* with InvalidArgument without a store call, post-message also without a
\* call of the AI provider, and the store is as it was.
C2_MalformedRejected ==
    /\ [](/\ EndedById /\ last.arg \in MalformedChatIds
               => last.outcome = InvalidArgument /\ last.stored = 0
          /\ \A p \in Procs :
               pc[p] # "idle" /\ chat_id[p] \in MalformedChatIds
               => /\ pc[p] = "done"
                  /\ outcome[p] = InvalidArgument
                  /\ trace[p] = NoTrace)
    /\ [][/\ last'.op \in {"rename", "get", "delete"}
             /\ last'.arg \in MalformedChatIds => store' = store
          /\ \A p \in Procs :
                pc[p] = "idle" /\ pc'[p] # "idle" /\ chat_id'[p] \in MalformedChatIds
                => store' = store]_vars

C2_Witness ==
    /\ Len(store) > 0
    /\ \E p \in Procs :
          /\ pc[p] = "done"
          /\ chat_id[p] \in MalformedChatIds
          /\ outcome[p] = InvalidArgument

\* C3: post-message has no partial success: when it ends with success its
\* whole update is in the store, and when it ends with an error the store
\* holds nothing the call has written.
C3_NoPartialSuccess ==
    [][\A p \in Procs :
          pc[p] = "update" /\ pc'[p] = "done"
          => IF outcome'[p] = OK
             THEN Addressed(store', p) =
                     ApplyUpdate(Addressed(store, p),
                                 update_data(prompt[p], user_message(p), ai_message(p),
                                             code(p), chat[p]))
             ELSE store' = store]_vars

\* C4: a chat created with the name "New Chat" is renamed by post-message
\* exactly once: the first post sets the name to its prompt, and no later post
\* changes the name again.
C4_RenamedOnce ==
    /\ \A o \in DOMAIN hist :
          hist[o].created = NewChat => hist[o].autoNamed <= 1
    /\ \A p \in Procs :
          /\ pc[p] = "done"
          /\ outcome[p] = OK
          /\ Has(chat[p], "name")
          /\ chat[p]["name"] = NewChat
          => Addressed(store, p)["name"] = prompt[p]

\* C5: every successful post-message of prompt P appends exactly two entries
\* to the end of the chat's messages, USER(P) then AI(explanation), and leaves
\* the entries before them as they were.
C5_AppendsPair ==
    [][\A p \in Procs :
          pc[p] = "update" /\ pc'[p] = "done" /\ outcome'[p] = OK
          => Addressed(store', p)["messages"] =
                Addressed(store, p)["messages"]
                   \o <<Message(prompt[p], USER), Message(response[p].explanation, AI)>>]_vars

C5_Witness ==
    \E p \in Procs :
        /\ pc[p] = "done"
        /\ outcome[p] = OK
        /\ Len(Addressed(store, p)["messages"]) = 4

\* C6: in every state each stored code field of a chat is the latest non-blank
\* value an applied post-message received for it, or the creation default.
C6_CodeIsLatestNonBlank ==
    \A i \in 1..Len(store) : \A f \in {"html", "css", "js"} :
        /\ Has(store[i], "code")
        /\ Has(store[i]["code"], f)
        /\ store[i]["code"][f] = hist[store[i]["_id"]].received[f]

IsPrefix(a, b) == Len(a) <= Len(b) /\ SubSeq(b, 1, Len(a)) = a

\* C7: the messages of a chatId only grow: a record that is there before and
\* after a step keeps its messages as a prefix, and a record that reappears
\* under a chatId never has fewer messages than the chatId held before.
C7_MessagesOnlyGrow ==
    /\ [](\A i \in 1..Len(store) :
             Len(store[i]["messages"]) >= hist[store[i]["_id"]].peak)
    /\ [][\A i \in 1..Len(store), j \in 1..Len(store') :
             store[i]["_id"] = store'[j]["_id"]
             => IsPrefix(store[i]["messages"], store'[j]["messages"])]_vars

\* C8: after create(userId) has returned a chat, list(userId) returns that
\* chat exactly once and no chat of another user.
C8_CreateThenList ==
    last.op = "create"
    => LET listing == ListChats(store, last.arg.user_id)
       IN  /\ listing.outcome = OK
           /\ Cardinality({i \in 1..Len(listing.body) :
                              listing.body[i].id = last.body.id}) = 1
           /\ \A i \in 1..Len(listing.body) :
                 listing.body[i].userId = last.arg.user_id

C8_Witness ==
    /\ last.op = "create"
    /\ \E i \in 1..Len(store) :
          Has(store[i], "userId") /\ store[i]["userId"] # last.arg.user_id

\* C9: create succeeds and inserts exactly one record, with an id no record
\* of the store has, the given userId, the given name or "New Chat", no
\* messages and empty code; no later step changes the id or the userId of a
\* record.
C9_CreateInsertsFresh ==
    /\ [](\A i, j \in 1..Len(store) : store[i]["_id"] = store[j]["_id"] => i = j)
    /\ [][last'.op = "create" /\ last.op = "none"
          => /\ last'.outcome = OK
             /\ Len(store') = Len(store) + 1
             /\ SubSeq(store', 1, Len(store)) = store
             /\ LET new == store'[Len(store')]
                IN  /\ new["_id"] \notin Ids(store)
                    /\ OidStr(new["_id"]) = last'.body.id
                    /\ new["userId"] = last'.arg.user_id
                    /\ new["name"] = IF last'.arg.name = Omitted
                                     THEN "New Chat" ELSE last'.arg.name
                    /\ new["messages"] = <<>>
                    /\ new["code"] = [html |-> <<>>, css |-> <<>>, js |-> <<>>]]_vars
    /\ [][\A i \in 1..Len(store), j \in 1..Len(store') :
             store[i]["_id"] = store'[j]["_id"]
             => /\ Has(store[i], "userId") <=> Has(store'[j], "userId")
                /\ Has(store[i], "userId") => store'[j]["userId"] = store[i]["userId"]]_vars

C9_Witness ==
    /\ last.op = "create"
    /\ Len(store) = 2
    /\ last.arg.name # Omitted

\* C10: list for a userId that owns no chat ends with NotFound, not with an
\* empty collection.
C10_EmptyListIsNotFound ==
    /\ last.op = "list"
    /\ \A i \in 1..Len(store) : Has(store[i], "userId") => store[i]["userId"] # last.arg
    => last.outcome = NotFound

\* the pair of messages one call with prompt i stores: its USER message and
\* the AI message made of the explanation the provider returned to that call
PairOf(i) == <<Message(i, USER), Message(Answer[i].explanation, AI)>>

WholePairs(m) ==
    /\ Len(m) % 2 = 0
    /\ \A k \in 1..(Len(m) \div 2) :
          \E i \in Prompts : <<m[2 * k - 1], m[2 * k]>> = PairOf(i)

\* C11: in every reachable state the messages of every chat are a
\* concatenation of whole [USER, AI] pairs, each USER message immediately
\* followed by the AI message of the same call, also when two post-message
\* calls run concurrently on the chat; a call that is running has stored
\* either none or both of its messages.
C11_PairsNeverInterleaved ==
    /\ \A i \in 1..Len(store) :
          Has(store[i], "messages") /\ WholePairs(store[i]["messages"])
    /\ \A p \in Procs :
          pc[p] \in {"ai", "find", "update"} /\ Addressed(store, p) # None
          => Len(Addressed(store, p)["messages"]) % 2 = 0

\* two calls overlap on one chat and the pair of the call that started first
\* (call 1, whose lookup saw no message) is stored after the other call's pair
C11_Witness ==
    /\ pc[1] = "done"
    /\ outcome[1] = OK
    /\ prompt[1] = "p1"
    /\ chat[1]["messages"] = <<>>
    /\ Addressed(store, 1)["messages"] = PairOf("p2") \o PairOf("p1")

CodeFields == {"html", "css", "js"}

\* the code of a record, with the fields it has
CodeOf(d) == IF d # None /\ Has(d, "code") THEN d["code"] ELSE EmptyDict

\* C12, as stated: the code a successful post-message returns is the merged
\* snapshot: each of html, css and js equals the value stored for the chat
\* once the call's update has been applied.
C12_ReturnsMergedCode ==
    \A p \in Procs :
        pc[p] = "done" /\ outcome[p] = OK
        => \A f \in CodeFields :
              /\ Has(CodeOf(Addressed(store, p)), f)
              /\ ret[p].code[f] = CodeOf(Addressed(store, p))[f]

\* C12, amended: the code a successful post-message returns equals the stored
\* value, once the call's update has been applied, for each field the provider
\* returned non-blank; a field the provider returned blank is returned as the
\* provider gave it, and the stored field keeps the value it had before.
C12_ReturnsStoredWhereSet ==
    [][\A p \in Procs :
          pc[p] = "update" /\ pc'[p] = "done" /\ outcome'[p] = OK
          => \A f \in CodeFields :
                LET got    == Answer[prompt[p]][f]
                    before == CodeOf(Addressed(store, p))
                    after  == CodeOf(Addressed(store', p))
                IN  IF strip(got) # <<>>
                    THEN /\ Has(after, f)
                         /\ ret'[p].code[f] = after[f]
                    ELSE /\ ret'[p].code[f] = got
                         /\ Has(after, f) <=> Has(before, f)
                         /\ Has(before, f) => after[f] = before[f]]_vars

\* a call has returned a blank css although the stored css is not blank
C12_Witness ==
    \E p \in Procs :
        /\ pc[p] = "done"
        /\ outcome[p] = OK
        /\ strip(ret[p].code["css"]) = <<>>
        /\ Has(CodeOf(Addressed(store, p)), "css")
        /\ strip(CodeOf(Addressed(store, p))["css"]) # <<>>

\* C13: when the chat that post-message's lookup found has been deleted before
\* post-message's update is applied, the update inserts a record under that
\* chatId, holding the call's two messages, so a record exists for a chatId
\* whose delete has succeeded.
C13_UpsertRecreates ==
    [][\A p \in Procs :
          pc[p] = "update" /\ pc'[p] = "done" /\ Addressed(store, p) = None
          => /\ chat[p] # None
             /\ Len(store') = Len(store) + 1
             /\ SubSeq(store', 1, Len(store)) = store
             /\ Addressed(store', p) # None
             /\ Addressed(store', p)["messages"] = PairOf(prompt[p])
             /\ result'[p].upserted]_vars

\* the record of a chatId is in the store after the delete of that chatId has
\* succeeded: the id's creation is forgotten and the record is the upserted one
C13_Witness ==
    \E p \in Procs :
        /\ pc[p] = "done"
        /\ chat[p] # None
        /\ result[p].upserted
        /\ Addressed(store, p) # None
        /\ hist[ObjectId(chat_id[p])].created = NoValue
        /\ ~Has(Addressed(store, p), "userId")

\* C14: post-message sets the name only when the stored name is "New Chat": a
\* name that a rename has stored is never overwritten by the update of a
\* post-message, also when the rename is applied between the post's lookup
\* and its update.
C14_RenameNotOverwritten ==
    [][\A p \in Procs :
          /\ pc[p] = "update" /\ pc'[p] = "done"
          /\ Addressed(store, p) # None
          /\ Has(Addressed(store, p), "name")
          /\ Addressed(store, p)["name"] \in Names
          => Addressed(store', p)["name"] = Addressed(store, p)["name"]]_vars

\* C15: the name a successful post-message returns is the resulting name of
\* the chat: the prompt when the call set the name, the name it found
\* otherwise, and in both cases the name stored for the chat immediately after
\* the call's update.
C15_ReturnsResultingName ==
    \A p \in Procs :
        /\ pc[p] = "done" /\ outcome[p] = OK
        /\ Has(chat[p], "name")
        /\ Has(Addressed(store, p), "name")
        => /\ ret[p].name = IF chat[p]["name"] = NewChat
                            THEN prompt[p] ELSE chat[p]["name"]
           /\ ret[p].name = Addressed(store, p)["name"]

\* C16: the code a successful post-message returns is exactly the three values
\* the AI provider returned to this call, whatever the store holds: a field
\* the provider returned blank is returned as that blank text.
C16_ReturnsProviderCode ==
    \A p \in Procs :
        pc[p] = "done" /\ outcome[p] = OK
        => /\ DOMAIN ret[p].code = CodeFields
           /\ \A f \in CodeFields : ret[p].code[f] = Answer[prompt[p]][f]

\* the provider returned an empty js to this call, the call returns it, and
\* the stored js is the non-blank value of an earlier post
C16_Witness ==
    \E p \in Procs :
        /\ pc[p] = "done"
        /\ outcome[p] = OK
        /\ Answer[prompt[p]]["js"] = <<>>
        /\ ret[p].code["js"] = <<>>
        /\ Has(CodeOf(Addressed(store, p)), "js")
        /\ CodeOf(Addressed(store, p))["js"] = <<"j">>

\* C17: when the AI provider call of a post-message fails, the provider has
\* been invoked exactly once by that call, the call ends with the upstream
\* failure without a store call, and the store is as it was: no message is
\* appended and no name or code field is set.
C17_UpstreamFailurePropagates ==
    /\ [](\A p \in Procs :
             /\ trace[p].ai <= 1
             /\ pc[p] = "done" /\ outcome[p] = UpstreamFailure
                => /\ trace[p].ai = 1
                   /\ trace[p].store = 0
                   /\ result[p] = NoResult)
    /\ [][\A p \in Procs :
             pc[p] = "ai" /\ pc'[p] = "done"
             => /\ outcome'[p] = UpstreamFailure
                /\ store' = store]_vars

\* the provider call of a post to a stored chat has failed
C17_Witness ==
    \E p \in Procs :
        /\ pc[p] = "done"
        /\ outcome[p] = UpstreamFailure
        /\ Addressed(store, p) # None
        /\ Addressed(store, p)["messages"] = <<>>
        /\ Addressed(store, p)["name"] = NewChat

\* the records of s whose id is not oid, in order
Others(s, oid) == SelectSeq(s, LAMBDA d : d["_id"] # oid)

\* the records of s whose id is oid
Same(s, oid) == SelectSeq(s, LAMBDA d : d["_id"] = oid)

\* the chat ids the step is addressed to: the argument of the rename, get or
\* delete that has ended, and of the post-message calls that have moved
StepIds ==
    (IF /\ last.op = "none"
        /\ last'.op \in {"rename", "get", "delete"}
        /\ last'.arg \in ValidChatIds
     THEN {ObjectId(last'.arg)} ELSE {})
    \cup {ObjectId(chat_id'[p]) : p \in {q \in Procs : /\ pc'[q] # pc[q]
                                                       /\ pc'[q] # "idle"
                                                       /\ chat_id'[q] \in ValidChatIds}}

C19_RecordsAreComplete ==
    \A i \in 1..Len(store) :
        /\ Has(store[i], "userId")
        /\ Has(store[i], "name")
        /\ Has(store[i], "messages")
        /\ Has(store[i], "code")
        /\ DOMAIN store[i]["code"] = CodeFields

====
